---- MODULE Spec2Model ----
(***************************************************************************)
(* WSD device-capabilities decoder of sane-airscan (src/airscan-wsd.c).    *)
(*                                                                         *)
(* The XML reader is modelled as a cursor that delivers nodes in document  *)
(* order: a node is a record [path, text], path being the path suffix the  *)
(* parsers compare with strcmp and text the node's value as a sequence of  *)
(* characters.  Bit sets (flags, colormodes) are modelled as sets of bit   *)
(* names: | is \cup and & is \cap.  A NULL pointer to a source is the      *)
(* empty sequence, a non-NULL one is a one-element sequence.               *)
(***************************************************************************)
EXTENDS Integers, Sequences, FiniteSets, TLC

VARIABLES
    pc,       \* position of the decoder
    caps,     \* devcaps: [src: slot -> NULL or <<source>>, model, vendor, units, protocol]
    err,      \* error returned by the function that returned last
    adf,      \* wsd_devcaps_parse_configuration: bool adf
    duplex,   \* wsd_devcaps_parse_configuration: bool duplex
    formats,  \* wsd_devcaps_parse_configuration: unsigned int formats
    frame,    \* locals of the running wsd_devcaps_parse_source call
    node,     \* node under the XML reader's cursor inside a source subtree
    seen      \* source elements the reader has delivered so far

vars == <<pc, caps, err, adf, duplex, formats, frame, node, seen>>

----------------------------------------------------------------------------
(* Bounds of the model *)

\* Resolution leaves (Width + Height) walked in one source subtree
MaxResLeaves == 2

\* Length of each resolution list drawn for the resolution merge alone
MaxResLen == 3

----------------------------------------------------------------------------
(* Values *)

NULL == <<>>

NoError == "NULL"

OPT_SOURCE_PLATEN == "OPT_SOURCE_PLATEN"
OPT_SOURCE_ADF_SIMPLEX == "OPT_SOURCE_ADF_SIMPLEX"
OPT_SOURCE_ADF_DUPLEX == "OPT_SOURCE_ADF_DUPLEX"

\* the enum's values in ascending order, 0 .. NUM_OPT_SOURCE - 1
OPT_SOURCE == <<OPT_SOURCE_PLATEN, OPT_SOURCE_ADF_SIMPLEX, OPT_SOURCE_ADF_DUPLEX>>

Slots == {OPT_SOURCE[i] : i \in 1..Len(OPT_SOURCE)}

OPT_COLORMODES_SUPPORTED == {"OPT_COLORMODE_COLOR", "OPT_COLORMODE_GRAYSCALE"}

DEVCAPS_SOURCE_FMT == {"DEVCAPS_SOURCE_FMT_JPEG", "DEVCAPS_SOURCE_FMT_PDF", "DEVCAPS_SOURCE_FMT_PNG"}

\* Texts of XML nodes, as character sequences
T_jfif == <<"j", "f", "i", "f">>
T_pdfa == <<"p", "d", "f", "-", "a">>
T_png == <<"p", "n", "g">>
T_bmp == <<"b", "m", "p">>
T_BlackAndWhite1 == <<"B", "l", "a", "c", "k", "A", "n", "d", "W", "h", "i", "t", "e", "1">>
T_Grayscale8 == <<"G", "r", "a", "y", "s", "c", "a", "l", "e", "8">>
T_RGB24 == <<"R", "G", "B", "2", "4">>
T_RGB48 == <<"R", "G", "B", "4", "8">>
T_1 == <<"1">>
T_0 == <<"0">>
T_true == <<"t", "r", "u", "e">>
T_false == <<"f", "a", "l", "s", "e">>
T_300 == <<"3", "0", "0">>
T_600 == <<"6", "0", "0">>
T_1200 == <<"1", "2", "0", "0">>
T_2550 == <<"2", "5", "5", "0">>
T_3507 == <<"3", "5", "0", "7">>
T_empty == <<>>
T_12x == <<"1", "2", "x">>

\* Path suffixes inside a source subtree
P_PlatenResW == "/scan:PlatenResolutions/scan:Widths/scan:Width"
P_ADFResW == "/scan:ADFResolutions/scan:Widths/scan:Width"
P_PlatenResH == "/scan:PlatenResolutions/scan:Heights/scan:Height"
P_ADFResH == "/scan:ADFResolutions/scan:Heights/scan:Height"
P_PlatenMinW == "/scan:PlatenMinimumSize/scan:Width"
P_ADFMinW == "/scan:ADFMinimumSize/scan:Width"
P_PlatenMinH == "/scan:PlatenMinimumSize/scan:Height"
P_ADFMinH == "/scan:ADFMinimumSize/scan:Height"
P_PlatenMaxW == "/scan:PlatenMaximumSize/scan:Width"
P_ADFMaxW == "/scan:ADFMaximumSize/scan:Width"
P_PlatenMaxH == "/scan:PlatenMaximumSize/scan:Height"
P_ADFMaxH == "/scan:ADFMaximumSize/scan:Height"
P_PlatenColor == "/scan:PlatenColor/scan:ColorEntry"
P_ADFColor == "/scan:ADFColor/scan:ColorEntry"
P_Other == "/scan:Other"

\* Path suffixes inside scan:ScannerConfiguration
P_Formats == "/scan:DeviceSettings/scan:FormatsSupported"
P_FormatValue == "/scan:FormatValue"
P_Platen == "/scan:Platen"
P_ADFFront == "/scan:ADF/scan:ADFFront"
P_ADFBack == "/scan:ADF/scan:ADFBack"
P_ADFSupportsDuplex == "/scan:ADF/scan:ADFSupportsDuplex"

Node(p, t) == [path |-> p, text |-> t]

----------------------------------------------------------------------------
(* Collaborators that are not part of src/airscan-wsd.c *)

Digits == {"0", "1", "2", "3", "4", "5", "6", "7", "8", "9"}

DigitValue(c) ==
    CASE c = "0" -> 0 [] c = "1" -> 1 [] c = "2" -> 2 [] c = "3" -> 3
      [] c = "4" -> 4 [] c = "5" -> 5 [] c = "6" -> 6 [] c = "7" -> 7
      [] c = "8" -> 8 [] c = "9" -> 9

RECURSIVE Decimal(_)
Decimal(t) ==
    IF t = <<>> THEN 0
    ELSE 10 * Decimal(SubSeq(t, 1, Len(t) - 1)) + DigitValue(t[Len(t)])

\* xml_rd_node_value_uint: the node's text as an unsigned integer, or an error
xml_rd_node_value_uint(t) ==
    IF t = <<>> \/ \E i \in 1..Len(t) : t[i] \notin Digits
    THEN [err |-> "invalid numerical value", val |-> 0]
    ELSE [err |-> NoError, val |-> Decimal(t)]

Range(s) == {s[i] : i \in 1..Len(s)}

SetMin(S) == CHOOSE x \in S : \A y \in S : x <= y

RECURSIVE SortedSeq(_)
SortedSeq(S) ==
    IF S = {} THEN <<>>
    ELSE <<SetMin(S)>> \o SortedSeq(S \ {SetMin(S)})

\* sane_word_array_sort: ascending order, each value once
sane_word_array_sort(a) == SortedSeq(Range(a))

\* sane_word_array_intersect_sorted: one pass over two ascending arrays
RECURSIVE sane_word_array_intersect_sorted(_, _)
sane_word_array_intersect_sorted(a1, a2) ==
    IF a1 = <<>> \/ a2 = <<>> THEN <<>>
    ELSE IF Head(a1) < Head(a2) THEN sane_word_array_intersect_sorted(Tail(a1), a2)
    ELSE IF Head(a1) > Head(a2) THEN sane_word_array_intersect_sorted(a1, Tail(a2))
    ELSE <<Head(a1)>> \o sane_word_array_intersect_sorted(Tail(a1), Tail(a2))

\* math_px2mm_res: pixels at the given resolution to millimetres, as SANE_Fixed (16.16)
math_px2mm_res(px, res) ==
    LET n == px * 254
        d == 10 * res
    IN  (n \div d) * 65536 + ((n % d) * 65536) \div d

devcaps_source_new ==
    [flags |-> {}, colormodes |-> {}, resolutions |-> <<>>,
     min_wid_px |-> 0, max_wid_px |-> 0, min_hei_px |-> 0, max_hei_px |-> 0,
     win_x_range_mm |-> [min |-> 0, max |-> 0],
     win_y_range_mm |-> [min |-> 0, max |-> 0]]

devcaps_source_clone(s) == s

Min2(a, b) == IF a <= b THEN a ELSE b

Max2(a, b) == IF a >= b THEN a ELSE b

\* devcaps_source_merge: a source that accepts everything either input accepts
devcaps_source_merge(s1, s2) ==
    [flags |-> s1.flags \cup s2.flags,
     colormodes |-> s1.colormodes \cup s2.colormodes,
     resolutions |-> SortedSeq(Range(s1.resolutions) \cup Range(s2.resolutions)),
     min_wid_px |-> Min2(s1.min_wid_px, s2.min_wid_px),
     max_wid_px |-> Max2(s1.max_wid_px, s2.max_wid_px),
     min_hei_px |-> Min2(s1.min_hei_px, s2.min_hei_px),
     max_hei_px |-> Max2(s1.max_hei_px, s2.max_hei_px),
     win_x_range_mm |-> [min |-> Min2(s1.win_x_range_mm.min, s2.win_x_range_mm.min),
                         max |-> Max2(s1.win_x_range_mm.max, s2.win_x_range_mm.max)],
     win_y_range_mm |-> [min |-> Min2(s1.win_y_range_mm.min, s2.win_y_range_mm.min),
                         max |-> Max2(s1.win_y_range_mm.max, s2.win_y_range_mm.max)]]

NoSources == [s \in Slots |-> NULL]

\* devcaps_reset: the capabilities back to the freshly initialized state
devcaps_reset(c) ==
    [src |-> NoSources, sane_sources |-> <<>>, model |-> "NULL", vendor |-> "NULL",
     units |-> c.units, protocol |-> c.protocol]

----------------------------------------------------------------------------
(* wsd_devcaps_parse_source *)

NoNode == Node("", <<>>)

NoFrame ==
    [caller |-> "none", src_id |-> "none", x_res |-> <<>>, y_res |-> <<>>,
     min_wid |-> -1, max_wid |-> -1, min_hei |-> -1, max_hei |-> -1,
     src |-> devcaps_source_new, err |-> NoError]

\* entry of wsd_devcaps_parse_source: the locals before the loop
ParseSourceEnter(caller, src_id) ==
    [NoFrame EXCEPT !.caller = caller, !.src_id = src_id]

\* the size is stored without the test of *out < 0
wsd_devcaps_parse_size_LastWins(out, t) ==
    LET u == xml_rd_node_value_uint(t)
    IN  [err |-> u.err,
         out |-> IF u.err = NoError THEN u.val ELSE out]

wsd_devcaps_parse_size(out, t) ==
    LET u == xml_rd_node_value_uint(t)
    IN  [err |-> u.err,
         out |-> IF u.err = NoError /\ out < 0 THEN u.val ELSE out]

wsd_devcaps_parse_res(res, t) ==
    LET u == xml_rd_node_value_uint(t)
    IN  [err |-> u.err,
         out |-> IF u.err = NoError THEN Append(res, u.val) ELSE res]

ColorEntry(colormodes, v) ==
    IF v = T_BlackAndWhite1 THEN colormodes \cup {"OPT_COLORMODE_BW1"}
    ELSE IF v = T_Grayscale8 THEN colormodes \cup {"OPT_COLORMODE_GRAYSCALE"}
    ELSE IF v = T_RGB24 THEN colormodes \cup {"OPT_COLORMODE_COLOR"}
    ELSE colormodes

\* one iteration of the loop's body, up to the test of err
ParseSourceNode(f, n) ==
    IF n.path \in {P_PlatenResW, P_ADFResW} THEN
        LET r == wsd_devcaps_parse_res(f.x_res, n.text)
        IN  [f EXCEPT !.x_res = r.out, !.err = r.err]
    ELSE IF n.path \in {P_PlatenResH, P_ADFResH} THEN
        LET r == wsd_devcaps_parse_res(f.y_res, n.text)
        IN  [f EXCEPT !.y_res = r.out, !.err = r.err]
    ELSE IF n.path \in {P_PlatenMinW, P_ADFMinW} THEN
        LET r == wsd_devcaps_parse_size(f.min_wid, n.text)
        IN  [f EXCEPT !.min_wid = r.out, !.err = r.err]
    ELSE IF n.path \in {P_PlatenMinH, P_ADFMinH} THEN
        LET r == wsd_devcaps_parse_size(f.min_hei, n.text)
        IN  [f EXCEPT !.min_hei = r.out, !.err = r.err]
    ELSE IF n.path \in {P_PlatenMaxW, P_ADFMaxW} THEN
        LET r == wsd_devcaps_parse_size(f.max_wid, n.text)
        IN  [f EXCEPT !.max_wid = r.out, !.err = r.err]
    ELSE IF n.path \in {P_PlatenMaxH, P_ADFMaxH} THEN
        LET r == wsd_devcaps_parse_size(f.max_hei, n.text)
        IN  [f EXCEPT !.max_hei = r.out, !.err = r.err]
    ELSE IF n.path \in {P_PlatenColor, P_ADFColor} THEN
        [f EXCEPT !.src.colormodes = ColorEntry(f.src.colormodes, n.text)]
    ELSE f

\* the whole loop over the nodes of a subtree: stops at the first error
RECURSIVE ParseSourceWalk(_, _)
ParseSourceWalk(f, nodes) ==
    IF nodes = <<>> THEN f
    ELSE LET g == ParseSourceNode(f, Head(nodes))
         IN  IF g.err # NoError THEN g ELSE ParseSourceWalk(g, Tail(nodes))

\* the Y array is intersected as it was read, without being sorted
MergeResolutions_UnsortedY(x_res, y_res) ==
    sane_word_array_intersect_sorted(sane_word_array_sort(x_res), y_res)

\* "Merge x/y resolutions": both arrays sorted, then intersected
MergeResolutions(x_res, y_res) ==
    sane_word_array_intersect_sorted(sane_word_array_sort(x_res),
                                     sane_word_array_sort(y_res))

\* the tests of the sizes moved before the test of the color modes, and the
\* test of the widths' order dropped
CheckSource_Reordered(e, colormodes, min_wid, min_hei, max_wid, max_hei) ==
    IF e # NoError THEN e
    ELSE IF min_wid < 0 THEN "minimum width not defined"
    ELSE IF min_hei < 0 THEN "minimum height not defined"
    ELSE IF max_wid < 0 THEN "maximum width not defined"
    ELSE IF max_hei < 0 THEN "maximum height not defined"
    ELSE IF colormodes = {} THEN "no color modes defined"
    ELSE IF min_hei > max_hei THEN "minimum height > maximum height"
    ELSE NoError

\* "Check things": the first failing test sets err, the later ones are skipped
CheckSource(e, colormodes, min_wid, min_hei, max_wid, max_hei) ==
    IF e # NoError THEN e
    ELSE IF colormodes = {} THEN "no color modes defined"
    ELSE IF min_wid < 0 THEN "minimum width not defined"
    ELSE IF min_hei < 0 THEN "minimum height not defined"
    ELSE IF max_wid < 0 THEN "maximum width not defined"
    ELSE IF max_hei < 0 THEN "maximum height not defined"
    ELSE IF min_wid > max_wid THEN "minimum width > maximum width"
    ELSE IF min_hei > max_hei THEN "minimum height > maximum height"
    ELSE NoError

\* from the end of the loop to "Save min/max width and height"
ParseSourceCheck(f) ==
    LET x == IF f.err = NoError THEN sane_word_array_sort(f.x_res) ELSE f.x_res
        y == IF f.err = NoError THEN sane_word_array_sort(f.y_res) ELSE f.y_res
        res == IF f.err = NoError THEN MergeResolutions(f.x_res, f.y_res)
               ELSE f.src.resolutions
        e1 == IF f.err = NoError /\ Len(res) = 0 THEN "no resolutions defined"
              ELSE f.err
        fl == IF f.err = NoError /\ Len(res) > 0
              THEN f.src.flags \cup {"DEVCAPS_SOURCE_RES_DISCRETE"}
              ELSE f.src.flags
        cm == f.src.colormodes \cap OPT_COLORMODES_SUPPORTED
        e2 == CheckSource(e1, cm, f.min_wid, f.min_hei, f.max_wid, f.max_hei)
    IN  [f EXCEPT !.x_res = x, !.y_res = y, !.err = e2,
                  !.src = [f.src EXCEPT !.resolutions = res, !.flags = fl,
                                        !.colormodes = cm,
                                        !.min_wid_px = f.min_wid,
                                        !.max_wid_px = f.max_wid,
                                        !.min_hei_px = f.min_hei,
                                        !.max_hei_px = f.max_hei]]

\* a valid source is stored whether or not the slot is empty
SaveSource_Overwrite(src, f) ==
    IF f.err = NoError
    THEN [src EXCEPT ![f.src_id] = <<f.src>>]
    ELSE src

\* "Save source": only a valid source is stored, and only into an empty slot
SaveSource(src, f) ==
    IF f.err = NoError /\ src[f.src_id] = NULL
    THEN [src EXCEPT ![f.src_id] = <<f.src>>]
    ELSE src

----------------------------------------------------------------------------
(* wsd_devcaps_parse_description, wsd_devcaps_parse_formats,
   wsd_devcaps_parse_configuration *)

\* the loop over scan:ScannerName leaves: the first name is kept
RECURSIVE ParseDescription(_, _)
ParseDescription(model, names) ==
    IF names = <<>> THEN model
    ELSE ParseDescription(IF model = "NULL" THEN Head(names) ELSE model, Tail(names))

FormatValue(flags, v) ==
    IF v = T_jfif THEN flags \cup {"DEVCAPS_SOURCE_FMT_JPEG"}
    ELSE IF v = T_pdfa THEN flags \cup {"DEVCAPS_SOURCE_FMT_PDF"}
    ELSE IF v = T_png THEN flags \cup {"DEVCAPS_SOURCE_FMT_PNG"}
    ELSE flags

\* the loop over scan:FormatValue leaves
RECURSIVE ParseFormats(_, _)
ParseFormats(flags, values) ==
    IF values = <<>> THEN flags
    ELSE ParseFormats(FormatValue(flags, Head(values)), Tail(values))

\* the slot a source element is parsed into
SourceOfPath(path) ==
    IF path = P_Platen THEN OPT_SOURCE_PLATEN
    ELSE IF path = P_ADFFront THEN OPT_SOURCE_ADF_SIMPLEX
    ELSE OPT_SOURCE_ADF_DUPLEX

\* adf is set by scan:ADFBack too
AdfAfter_AnyADF(a, path) == IF path \in {P_ADFFront, P_ADFBack} THEN TRUE ELSE a

\* bool adf after the dispatch on a source element's path
AdfAfter(a, path) == IF path = P_ADFFront THEN TRUE ELSE a

\* duplex = !strcmp(v, "1") || !strcmp(v, "true")
SupportsDuplex(v) == v = T_1 \/ v = T_true

\* "Adjust sources": formats and physical ranges of every populated slot
AdjustSources(src, fmts) ==
    [i \in Slots |->
        IF src[i] = NULL THEN NULL
        ELSE <<[src[i][1] EXCEPT
                  !.flags = @ \cup fmts,
                  !.win_x_range_mm = [min |-> 0,
                                      max |-> math_px2mm_res(src[i][1].max_wid_px, 1000)],
                  !.win_y_range_mm = [min |-> 0,
                                      max |-> math_px2mm_res(src[i][1].max_hei_px, 1000)]]>>]

\* the else branch that frees a duplex source is missing
DuplexDerive_KeepBack(src, a, d) ==
    IF a /\ d THEN
        IF src[OPT_SOURCE_ADF_DUPLEX] = NULL
        THEN [src EXCEPT ![OPT_SOURCE_ADF_DUPLEX] =
                  <<devcaps_source_clone(src[OPT_SOURCE_ADF_SIMPLEX][1])>>]
        ELSE [src EXCEPT ![OPT_SOURCE_ADF_DUPLEX] =
                  <<devcaps_source_merge(src[OPT_SOURCE_ADF_SIMPLEX][1],
                                         src[OPT_SOURCE_ADF_DUPLEX][1])>>]
    ELSE src

\* the copy of ADF front misses the formats "Adjust sources" has added
DuplexDerive_CopyWithoutFormats(src, a, d) ==
    IF a /\ d THEN
        IF src[OPT_SOURCE_ADF_DUPLEX] = NULL
        THEN [src EXCEPT ![OPT_SOURCE_ADF_DUPLEX] =
                  <<[src[OPT_SOURCE_ADF_SIMPLEX][1] EXCEPT
                        !.flags = @ \ DEVCAPS_SOURCE_FMT]>>]
        ELSE [src EXCEPT ![OPT_SOURCE_ADF_DUPLEX] =
                  <<devcaps_source_merge(src[OPT_SOURCE_ADF_SIMPLEX][1],
                                         src[OPT_SOURCE_ADF_DUPLEX][1])>>]
    ELSE IF src[OPT_SOURCE_ADF_DUPLEX] # NULL
    THEN [src EXCEPT ![OPT_SOURCE_ADF_DUPLEX] = NULL]
    ELSE src

\* the duplex slot out of ADF front and ADF back
DuplexDerive(src, a, d) ==
    IF a /\ d THEN
        IF src[OPT_SOURCE_ADF_DUPLEX] = NULL
        THEN [src EXCEPT ![OPT_SOURCE_ADF_DUPLEX] =
                  <<devcaps_source_clone(src[OPT_SOURCE_ADF_SIMPLEX][1])>>]
        ELSE [src EXCEPT ![OPT_SOURCE_ADF_DUPLEX] =
                  <<devcaps_source_merge(src[OPT_SOURCE_ADF_SIMPLEX][1],
                                         src[OPT_SOURCE_ADF_DUPLEX][1])>>]
    ELSE IF src[OPT_SOURCE_ADF_DUPLEX] # NULL
    THEN [src EXCEPT ![OPT_SOURCE_ADF_DUPLEX] = NULL]
    ELSE src

\* "Update list of sources": the populated slots in the enum's order
SaneSources(src) == SelectSeq(OPT_SOURCE, LAMBDA i : src[i] # NULL)

\* the error wsd_devcaps_parse_configuration returns after the update
SourcesError(src) ==
    IF \E i \in Slots : src[i] # NULL THEN NoError
    ELSE "neither platen nor ADF sources detected"

\* the capabilities are returned as they are, without the reset
ParseDone_NoReset(c, e) == c

\* DONE: of wsd_devcaps_parse
ParseDone(c, e) == IF e # NoError THEN devcaps_reset(c) ELSE c

\* the defaults wsd_devcaps_decode fills in after a successful parse
DecodeDefaults(c, e) ==
    IF e = NoError
    THEN [c EXCEPT !.vendor = IF @ = "NULL" THEN "AirScan" ELSE @,
                   !.model = IF @ = "NULL" THEN "Unknown" ELSE @]
    ELSE c

----------------------------------------------------------------------------
(* Documents the reader delivers *)

IsPlaten(id) == id = OPT_SOURCE_PLATEN

PathResW(id) == IF IsPlaten(id) THEN P_PlatenResW ELSE P_ADFResW
PathResH(id) == IF IsPlaten(id) THEN P_PlatenResH ELSE P_ADFResH
PathMinW(id) == IF IsPlaten(id) THEN P_PlatenMinW ELSE P_ADFMinW
PathMinH(id) == IF IsPlaten(id) THEN P_PlatenMinH ELSE P_ADFMinH
PathMaxW(id) == IF IsPlaten(id) THEN P_PlatenMaxW ELSE P_ADFMaxW
PathMaxH(id) == IF IsPlaten(id) THEN P_PlatenMaxH ELSE P_ADFMaxH
PathColor(id) == IF IsPlaten(id) THEN P_PlatenColor ELSE P_ADFColor

ResPaths(id) == {PathResW(id), PathResH(id)}
SizePaths(id) == {PathMinW(id), PathMinH(id), PathMaxW(id), PathMaxH(id)}

ResTexts == {T_300, T_600, T_12x}
SizeTexts == {T_0, T_2550, T_empty}
ColorTexts == {T_RGB24, T_BlackAndWhite1, T_RGB48}

\* the nodes a source subtree is walked over, one at a time
SrcNodes(id) ==
    {Node(p, t) : p \in ResPaths(id), t \in ResTexts}
    \cup {Node(p, t) : p \in SizePaths(id), t \in SizeTexts}
    \cup {Node(PathColor(id), t) : t \in ColorTexts}
    \cup {Node(P_Other, T_empty)}

\* the source element itself: its path suffix is empty
RootNode == Node("", T_empty)

\* a complete, valid source element
BaseSubtree(id) ==
    <<Node(PathResW(id), T_300), Node(PathResH(id), T_300),
      Node(PathMinW(id), T_0), Node(PathMinH(id), T_0),
      Node(PathMaxW(id), T_2550), Node(PathMaxH(id), T_3507),
      Node(PathColor(id), T_RGB24)>>

ExtraNodes(id) ==
    {Node(PathResW(id), T_600), Node(PathResH(id), T_600),
     Node(PathMinW(id), T_3507), Node(PathResW(id), T_12x)}

RemoveAt(s, i) == SubSeq(s, 1, i - 1) \o SubSeq(s, i + 1, Len(s))

Optional(S) == {<<>>} \cup {<<n>> : n \in S}

\* whole source elements: the valid one, with a leaf missing, with leaves added
SrcSubtrees(id) ==
    {<<RootNode>> \o pre \o BaseSubtree(id) \o post :
        pre \in Optional(ExtraNodes(id)), post \in Optional(ExtraNodes(id))}
    \cup {<<RootNode>> \o RemoveAt(BaseSubtree(id), i) : i \in 1..Len(BaseSubtree(id))}

SourcePaths == {P_Platen, P_ADFFront, P_ADFBack}

FormatSubtrees == {<<>>, <<T_bmp>>, <<T_jfif, T_pdfa, T_png>>}

DuplexTexts == {T_1, T_true, T_0, T_false}

DescriptionSubtrees == {<<>>, <<"MFP-1">>}

\* a source a previous Platen or ADF element of the document left in its slot
PriorSource(id) ==
    ParseSourceCheck(ParseSourceWalk(ParseSourceEnter("caller", id),
        <<RootNode,
          Node(PathResW(id), T_1200), Node(PathResH(id), T_1200),
          Node(PathMinW(id), T_0), Node(PathMinH(id), T_0),
          Node(PathMaxW(id), T_3507), Node(PathMaxH(id), T_3507),
          Node(PathColor(id), T_Grayscale8)>>)).src

\* what wsd_devcaps_parse_source makes of each of these elements, up to "Save source"
SrcFrames ==
    [id \in Slots |->
        {ParseSourceCheck(ParseSourceWalk(
            ParseSourceEnter("parse_configuration", id), subtree)) :
         subtree \in SrcSubtrees(id)}]

FreshCaps ==
    [src |-> NoSources, sane_sources |-> <<>>, model |-> "NULL", vendor |-> "NULL",
     units |-> 0, protocol |-> "NULL"]

RECURSIVE SeqsUpTo(_, _)
SeqsUpTo(S, n) ==
    IF n = 0 THEN {<<>>}
    ELSE SeqsUpTo(S, n - 1) \cup {Append(q, x) : q \in SeqsUpTo(S, n - 1), x \in S}

----------------------------------------------------------------------------
(* The decoder: wsd_devcaps_decode -> wsd_devcaps_parse ->
   wsd_devcaps_parse_configuration -> wsd_devcaps_parse_source *)

Init ==
    /\ pc = "begin"
    /\ caps = FreshCaps
    /\ err = NoError
    /\ adf = FALSE
    /\ duplex = FALSE
    /\ formats = {}
    /\ frame = NoFrame
    /\ node = NoNode
    /\ seen = {}

\* wsd_devcaps_decode up to the call of wsd_devcaps_parse, and xml_rd_begin
Begin ==
    /\ pc = "begin"
    /\ caps' = [caps EXCEPT !.units = 1000, !.protocol = "WSD"]
    /\ \E e \in {NoError, "XML parse error"} :
          /\ err' = e
          /\ pc' = IF e # NoError THEN "DONE" ELSE "top"
    /\ UNCHANGED <<adf, duplex, formats, frame, node, seen>>

\* top-level loop: a scan:ScannerDescription element
TopDescription ==
    /\ pc = "top"
    /\ \E names \in DescriptionSubtrees :
          caps' = [caps EXCEPT !.model = ParseDescription(@, names)]
    /\ err' = NoError
    /\ UNCHANGED <<pc, adf, duplex, formats, frame, node, seen>>

\* top-level loop: a scan:ScannerConfiguration element is entered
TopConfiguration ==
    /\ pc = "top"
    /\ adf' = FALSE
    /\ duplex' = FALSE
    /\ formats' = {}
    /\ frame' = NoFrame
    /\ pc' = "conf"
    /\ UNCHANGED <<caps, err, node, seen>>

\* top-level loop: any other node
TopOther ==
    /\ pc = "top"
    /\ UNCHANGED vars

\* top-level loop: xml_rd_end
TopEnd ==
    /\ pc = "top"
    /\ pc' = "DONE"
    /\ UNCHANGED <<caps, err, adf, duplex, formats, frame, node, seen>>

\* configuration loop: scan:FormatsSupported
ConfFormats ==
    /\ pc = "conf"
    /\ \E values \in FormatSubtrees : formats' = ParseFormats(formats, values)
    /\ frame' = NoFrame
    /\ UNCHANGED <<pc, caps, err, adf, duplex, node, seen>>

\* configuration loop: scan:Platen, scan:ADFFront or scan:ADFBack; the call of
\* wsd_devcaps_parse_source runs up to "Save source"
ConfSource ==
    /\ pc = "conf"
    /\ \E path \in SourcePaths :
          /\ adf' = AdfAfter(adf, path)
          /\ seen' = seen \cup {path}
          /\ \E f \in SrcFrames[SourceOfPath(path)] : frame' = f
    /\ pc' = "src_save"
    /\ UNCHANGED <<caps, err, duplex, formats, node>>

\* configuration loop: scan:ADFSupportsDuplex
ConfDuplex ==
    /\ pc = "conf"
    /\ \E v \in DuplexTexts : duplex' = SupportsDuplex(v)
    /\ frame' = NoFrame
    /\ UNCHANGED <<pc, caps, err, adf, formats, node, seen>>

\* configuration loop: any other node
ConfOther ==
    /\ pc = "conf"
    /\ frame' = NoFrame
    /\ UNCHANGED <<pc, caps, err, adf, duplex, formats, node, seen>>

\* configuration loop left by xml_rd_end: from "Adjust sources" to the return
ConfEnd ==
    /\ pc = "conf"
    /\ frame' = NoFrame
    /\ LET adjusted == AdjustSources(caps.src, formats)
       IN  IF adf /\ duplex /\ adjusted[OPT_SOURCE_ADF_SIMPLEX] = NULL
           THEN \* log_assert fails
                /\ pc' = "abort"
                /\ UNCHANGED <<caps, err>>
           ELSE LET src == DuplexDerive(adjusted, adf, duplex)
                IN  /\ caps' = [caps EXCEPT !.src = src,
                                            !.sane_sources = SaneSources(src)]
                    /\ err' = SourcesError(src)
                    /\ pc' = IF err' # NoError THEN "DONE" ELSE "top"
    /\ UNCHANGED <<adf, duplex, formats, node, seen>>

\* wsd_devcaps_parse_source: "Save source" and the return to the caller
SrcSave ==
    /\ pc = "src_save"
    /\ caps' = [caps EXCEPT !.src = SaveSource(@, frame)]
    /\ err' = frame.err
    /\ pc' = IF frame.caller = "parse_configuration"
             THEN (IF frame.err # NoError THEN "DONE" ELSE "conf")
             ELSE "src_ret"
    /\ UNCHANGED <<adf, duplex, formats, frame, node, seen>>

\* DONE: of wsd_devcaps_parse and the rest of wsd_devcaps_decode
Done ==
    /\ pc = "DONE"
    /\ caps' = DecodeDefaults(ParseDone(caps, err), err)
    /\ pc' = "ret"
    /\ UNCHANGED <<err, adf, duplex, formats, frame, node, seen>>

Next ==
    \/ Begin
    \/ TopDescription
    \/ TopConfiguration
    \/ TopOther
    \/ TopEnd
    \/ ConfFormats
    \/ ConfSource
    \/ ConfDuplex
    \/ ConfOther
    \/ ConfEnd
    \/ SrcSave
    \/ Done

Spec == Init /\ [][Next]_vars

----------------------------------------------------------------------------
(* wsd_devcaps_parse_source alone, its subtree walked node by node *)

InitSrc ==
    /\ pc = "src_node"
    /\ \E id \in Slots, prior \in BOOLEAN :
          /\ frame = ParseSourceEnter("caller", id)
          /\ caps = [FreshCaps EXCEPT
                       !.src[id] = IF prior THEN <<PriorSource(id)>> ELSE NULL]
    /\ err = NoError
    /\ adf = FALSE
    /\ duplex = FALSE
    /\ formats = {}
    /\ node = RootNode
    /\ seen = {}

\* the loop's body on the node under the cursor
SrcNode ==
    /\ pc = "src_node"
    /\ frame' = ParseSourceNode(frame, node)
    /\ pc' = IF frame'.err # NoError THEN "src_check" ELSE "src_next"
    /\ UNCHANGED <<caps, err, adf, duplex, formats, node, seen>>

\* xml_rd_deep_next moves the cursor to the next node of the subtree
SrcNext ==
    /\ pc = "src_next"
    /\ \E n \in SrcNodes(frame.src_id) :
          /\ n.path \in ResPaths(frame.src_id)
                => Len(frame.x_res) + Len(frame.y_res) < MaxResLeaves
          /\ node' = n
    /\ pc' = "src_node"
    /\ UNCHANGED <<caps, err, adf, duplex, formats, frame, seen>>

\* xml_rd_deep_next reaches the end of the subtree
SrcEnd ==
    /\ pc = "src_next"
    /\ node' = NoNode
    /\ pc' = "src_check"
    /\ UNCHANGED <<caps, err, adf, duplex, formats, frame, seen>>

\* after the loop: resolutions merged, the source checked
SrcCheck ==
    /\ pc = "src_check"
    /\ frame' = ParseSourceCheck(frame)
    /\ pc' = "src_save"
    /\ UNCHANGED <<caps, err, adf, duplex, formats, node, seen>>

NextSrc ==
    \/ SrcNode
    \/ SrcNext
    \/ SrcEnd
    \/ SrcCheck
    \/ SrcSave

SpecSrc == InitSrc /\ [][NextSrc]_vars

----------------------------------------------------------------------------
(* The resolution merge of wsd_devcaps_parse_source on drawn X and Y lists *)

ResValues == {300, 600, 1200}

InitRes ==
    /\ pc = "src_check"
    /\ \E x \in SeqsUpTo(ResValues, MaxResLen), y \in SeqsUpTo(ResValues, MaxResLen) :
          frame = [ParseSourceWalk(ParseSourceEnter("caller", OPT_SOURCE_PLATEN),
                                   <<RootNode>> \o SubSeq(BaseSubtree(OPT_SOURCE_PLATEN), 3, 7))
                   EXCEPT !.x_res = x, !.y_res = y]
    /\ caps = FreshCaps
    /\ err = NoError
    /\ adf = FALSE
    /\ duplex = FALSE
    /\ formats = {}
    /\ node = NoNode
    /\ seen = {}

NextRes ==
    \/ SrcCheck
    \/ SrcSave

SpecRes == InitRes /\ [][NextRes]_vars

----------------------------------------------------------------------------
(* Properties *)

Populated(id) == caps.src[id] # NULL

Succeeded == pc = "ret" /\ err = NoError

Failed == pc = "ret" /\ err # NoError

\* the four invariants of an accepted source
SourceInvariants(s) ==
    /\ Len(s.resolutions) > 0
    /\ s.colormodes \cap OPT_COLORMODES_SUPPORTED # {}
    /\ s.min_wid_px >= 0 /\ s.min_hei_px >= 0
    /\ s.max_wid_px >= 0 /\ s.max_hei_px >= 0
    /\ s.min_wid_px <= s.max_wid_px
    /\ s.min_hei_px <= s.max_hei_px

\* resolutions, pixel bounds and color modes of a source
Core(s) ==
    <<s.resolutions, s.min_wid_px, s.max_wid_px, s.min_hei_px, s.max_hei_px,
      s.colormodes>>

Ascending(q) == \A i \in 1..Len(q) - 1 : q[i] < q[i + 1]

\* C1: whenever the decoder returns success, at least one of the slots Platen,
\* ADF-Simplex, ADF-Duplex is populated (a document that leaves all three empty,
\* such as one without a ScannerConfiguration element, gets an error).
C1_SuccessHasSource ==
    Succeeded => \E id \in Slots : Populated(id)

\* C2: after a successful decode every populated slot has a non-empty resolution
\* set, a non-empty set of supported color modes, all four bounds defined, and
\* minimum <= maximum for width and for height.
C2_PopulatedSlotsValid ==
    Succeeded => \A id \in Slots : Populated(id) => SourceInvariants(caps.src[id][1])

\* a successful decode with all three slots populated, the duplex one merged
\* from ADF front and ADF back
C2_Witness ==
    /\ Succeeded
    /\ \A id \in Slots : Populated(id)
    /\ P_ADFBack \in seen
    /\ caps.src[OPT_SOURCE_ADF_DUPLEX] # caps.src[OPT_SOURCE_ADF_SIMPLEX]

\* C3: whenever the decoder returns an error, the capabilities have been reset:
\* no slot is populated and the list of sources is empty, wherever the error arose.
C3_ErrorResets ==
    Failed => /\ \A id \in Slots : ~Populated(id)
              /\ caps.sane_sources = <<>>

\* an ADF back element failed after a Platen element and the ADF front element
\* of the same configuration had been parsed and stored, and the decoder
\* returned the error
C3_Witness ==
    /\ Failed
    /\ adf
    /\ P_Platen \in seen
    /\ frame.src_id = OPT_SOURCE_ADF_DUPLEX
    /\ frame.err = err
    /\ \A id \in Slots : ~Populated(id)

\* C4: when the decode succeeds with the duplex flag false, the ADF-Duplex slot
\* is empty, whatever ADF back element the document held.
C4_NoDuplexWithoutFlag ==
    Succeeded /\ ~duplex => ~Populated(OPT_SOURCE_ADF_DUPLEX)

\* a successful decode of a document with ADF front and a valid ADF back whose
\* duplex flag is false
C4_Witness ==
    /\ Succeeded
    /\ ~duplex
    /\ adf
    /\ P_ADFBack \in seen
    /\ Populated(OPT_SOURCE_ADF_SIMPLEX)
    /\ ~Populated(OPT_SOURCE_ADF_DUPLEX)

\* C5: when a document without ADF back is decoded successfully and its last
\* configuration has ADF front and the duplex flag true, the ADF-Duplex slot is
\* populated; and whenever it is populated it equals the ADF-Simplex record in
\* every field, wherever the formats and the duplex flag stood in the document.
C5_DuplexCopiesFront ==
    Succeeded /\ P_ADFBack \notin seen =>
        /\ adf /\ duplex => Populated(OPT_SOURCE_ADF_DUPLEX)
        /\ Populated(OPT_SOURCE_ADF_DUPLEX) =>
              caps.src[OPT_SOURCE_ADF_DUPLEX] = caps.src[OPT_SOURCE_ADF_SIMPLEX]

\* a duplex record copied from ADF front that carries the document's formats
C5_Witness ==
    /\ Succeeded
    /\ P_ADFBack \notin seen
    /\ P_ADFFront \in seen
    /\ adf /\ duplex
    /\ Populated(OPT_SOURCE_ADF_DUPLEX)
    /\ caps.src[OPT_SOURCE_ADF_DUPLEX] = caps.src[OPT_SOURCE_ADF_SIMPLEX]
    /\ "DEVCAPS_SOURCE_FMT_PNG" \in caps.src[OPT_SOURCE_ADF_DUPLEX][1].flags

\* C6: when the walk of a source ended without error, the merge gives a
\* resolution list in strictly ascending order (sorted, no value twice) that
\* holds exactly the values found in both the X list and the Y list; the source
\* fails with "no resolutions defined" exactly when there is no such value; and
\* the stored source carries that list.
C6_ResolutionsAreIntersection ==
    [][/\ pc = "src_check" /\ frame.err = NoError =>
            /\ Ascending(frame'.src.resolutions)
            /\ Range(frame'.src.resolutions) = Range(frame.x_res) \cap Range(frame.y_res)
            /\ frame'.err = "no resolutions defined"
                  <=> Range(frame.x_res) \cap Range(frame.y_res) = {}
       /\ pc = "src_save" /\ frame.err = NoError =>
            caps'.src[frame.src_id][1].resolutions = frame.src.resolutions]_vars

\* X = {300, 600, 1200} and Y = {600, 1200} stored as {600, 1200}
C6_Witness ==
    /\ pc = "src_ret"
    /\ frame.err = NoError
    /\ frame.x_res = <<300, 600, 1200>>
    /\ frame.y_res = <<600, 1200>>
    /\ Populated(OPT_SOURCE_PLATEN)
    /\ caps.src[OPT_SOURCE_PLATEN][1].resolutions = <<600, 1200>>

BoundFields == {"min_wid", "min_hei", "max_wid", "max_hei"}

BoundPaths(b) ==
    CASE b = "min_wid" -> {P_PlatenMinW, P_ADFMinW}
      [] b = "min_hei" -> {P_PlatenMinH, P_ADFMinH}
      [] b = "max_wid" -> {P_PlatenMaxW, P_ADFMaxW}
      [] b = "max_hei" -> {P_PlatenMaxH, P_ADFMaxH}

BoundPx(s, b) ==
    CASE b = "min_wid" -> s.min_wid_px
      [] b = "min_hei" -> s.min_hei_px
      [] b = "max_wid" -> s.max_wid_px
      [] b = "max_hei" -> s.max_hei_px

\* C7: a well-formed size leaf sets its bound only while the bound is undefined;
\* once a bound is defined no later node of the subtree changes it, and the
\* source record carries the bound as the first occurrence set it.
C7_FirstBoundWins ==
    [][\A b \in BoundFields :
        /\ pc = "src_node" =>
              LET u == xml_rd_node_value_uint(node.text)
              IN  IF node.path \in BoundPaths(b) /\ u.err = NoError /\ frame[b] < 0
                  THEN frame'[b] = u.val
                  ELSE frame'[b] = frame[b]
        /\ pc = "src_check" =>
              frame'[b] = frame[b] /\ BoundPx(frame'.src, b) = frame[b]
        /\ pc = "src_save" /\ frame.err = NoError /\ ~Populated(frame.src_id) =>
              BoundPx(caps'.src[frame.src_id][1], b) = frame[b]]_vars

\* a second minimum width leaf with another well-formed value has been walked
\* and the bound still has the first value
C7_Witness ==
    /\ pc = "src_next"
    /\ node.path \in BoundPaths("min_wid")
    /\ xml_rd_node_value_uint(node.text).err = NoError
    /\ frame.min_wid >= 0
    /\ frame.min_wid # xml_rd_node_value_uint(node.text).val

\* C8: a source whose numeric leaves are all well-formed fails with the error of
\* the first violated check, in the order: no resolutions, no color modes,
\* minimum width, minimum height, maximum width, maximum height not defined,
\* minimum width > maximum width, minimum height > maximum height; it succeeds
\* when none is violated; and a failed source is not stored in its slot.
C8_FirstViolationReported ==
    /\ pc \in {"src_save", "src_ret"} /\ frame.err # "invalid numerical value" =>
          LET noRes == Range(frame.x_res) \cap Range(frame.y_res) = {}
              noCol == frame.src.colormodes \cap OPT_COLORMODES_SUPPORTED = {}
              e == frame.err
          IN  /\ noRes => e = "no resolutions defined"
              /\ ~noRes /\ noCol => e = "no color modes defined"
              /\ ~noRes /\ ~noCol =>
                    /\ frame.min_wid < 0 => e = "minimum width not defined"
                    /\ frame.min_wid >= 0 /\ frame.min_hei < 0
                          => e = "minimum height not defined"
                    /\ frame.min_wid >= 0 /\ frame.min_hei >= 0 /\ frame.max_wid < 0
                          => e = "maximum width not defined"
                    /\ frame.min_wid >= 0 /\ frame.min_hei >= 0 /\ frame.max_wid >= 0
                       /\ frame.max_hei < 0
                          => e = "maximum height not defined"
                    /\ frame.min_wid >= 0 /\ frame.min_hei >= 0 /\ frame.max_wid >= 0
                       /\ frame.max_hei >= 0 =>
                          /\ frame.min_wid > frame.max_wid
                                => e = "minimum width > maximum width"
                          /\ frame.min_wid <= frame.max_wid /\ frame.min_hei > frame.max_hei
                                => e = "minimum height > maximum height"
                          /\ frame.min_wid <= frame.max_wid /\ frame.min_hei <= frame.max_hei
                                => e = NoError
    /\ pc = "src_ret" /\ frame.err # NoError =>
          /\ err = frame.err
          /\ caps.src[frame.src_id] # <<frame.src>>
          /\ caps.src[frame.src_id] \in {NULL, <<PriorSource(frame.src_id)>>}

\* disjoint X and Y lists in a source that also lacks color modes and a minimum
\* width: "no resolutions defined" is the error, and the slot stays empty
C8_Witness ==
    /\ pc = "src_ret"
    /\ frame.x_res # <<>> /\ frame.y_res # <<>>
    /\ Range(frame.x_res) \cap Range(frame.y_res) = {}
    /\ frame.src.colormodes = {}
    /\ frame.min_wid < 0
    /\ err = "no resolutions defined"
    /\ ~Populated(frame.src_id)

\* C9: once the Platen or the ADF-Simplex slot is populated, no step changes the
\* resolutions, bounds and color modes of its record: a later element for the
\* same slot is discarded; the record goes away only with the reset of a failed
\* decode.
C9_FirstParseWins ==
    [][\A id \in {OPT_SOURCE_PLATEN, OPT_SOURCE_ADF_SIMPLEX} :
        Populated(id) =>
           \/ /\ caps'.src[id] # NULL
              /\ Core(caps'.src[id][1]) = Core(caps.src[id][1])
           \/ pc' = "ret" /\ err' # NoError]_vars

\* a second, valid Platen element with other contents has been parsed and the
\* slot still holds the first one
C9_Witness ==
    /\ pc = "conf"
    /\ frame.src_id = OPT_SOURCE_PLATEN
    /\ frame.err = NoError
    /\ Populated(OPT_SOURCE_PLATEN)
    /\ Core(frame.src) # Core(caps.src[OPT_SOURCE_PLATEN][1])

\* C10: the assertion of the duplex derivation never fails: whenever the
\* configuration loop can end with adf and duplex both true the ADF-Simplex slot
\* is populated; and after a successful decode a populated ADF-Duplex slot
\* implies a populated ADF-Simplex slot.
C10_AssertHolds ==
    /\ pc # "abort"
    /\ pc = "conf" /\ adf /\ duplex => Populated(OPT_SOURCE_ADF_SIMPLEX)
    /\ Succeeded /\ Populated(OPT_SOURCE_ADF_DUPLEX) => Populated(OPT_SOURCE_ADF_SIMPLEX)

\* a successful decode of a document with ADF back, the duplex flag true and
\* no ADF front
C10_Witness ==
    /\ Succeeded
    /\ duplex
    /\ P_ADFBack \in seen
    /\ P_ADFFront \notin seen
    /\ ~Populated(OPT_SOURCE_ADF_DUPLEX)

====
